---- MODULE Spec2Model ----
(***************************************************************************)
(* fourtosix: a relay that sniffs the destination host of an inbound       *)
(* connection (TLS ClientHello server name, HTTP Host header), checks it   *)
(* against a suffix allow-list, dials the host and splices the sockets.    *)
(*                                                                         *)
(* Bytes are naturals 0..255, byte slices and strings are sequences of     *)
(* bytes.  A Go slice is modelled by the array it points into together     *)
(* with an offset (p), an end (lim) and the array's capacity (cap): an     *)
(* index or a slice expression outside the bounds Go enforces is the       *)
(* outcome "panic".                                                        *)
(***************************************************************************)
EXTENDS Integers, Sequences, FiniteSets, TLC

VARIABLES
    \* ---- readClientHello driven on its own (SpecParser)
    stream,     \* the bytes the peer makes available to the reader
    segAt,      \* a segment boundary no single Read crosses (0: none)
    slack,      \* spare capacity append leaves behind the assembled buffer
    hello,      \* the outcome of readClientHello, NoResult before the call
    \* ---- hostHeader driven on its own (SpecHost)
    request,    \* the request the peer sends: [line, headers, blank, body]
    reqSeg,     \* a segment boundary no single Read crosses (0: none)
    reqEnd,     \* how the input ends: "eof" or "stall"
    hostOut,    \* what hostHeader returned, NoResult before the call
    \* ---- DialUnderSubnet and its factory driven on their own (SpecDial)
    subnet,     \* the -v4-subnet argument as net.ParseCIDR sees it
    remote,     \* conn.RemoteAddr(): the client's IPv4 address, 4 bytes
    factory,    \* "none" before DialUnderSubnet, then "error" or "made", "called"
                \* once the factory made has been called
    localIP,    \* the LocalAddr.IP of the Dialer the factory returned
    \* ---- a MemorizingReader driven on its own (SpecReader)
    wire,       \* the bytes the underlying reader has to give
    rpos,       \* how many of them it has returned
    mrBuf,      \* mr.buf
    rret,       \* (n, err) of the last Read
    \* ---- the policy gate driven on its own (SpecGate)
    gateHost,   \* the hostname put to the gate
    gateOut,    \* "none" before the test, then "permit" or "reject"
    \* ---- Handler (package tls and package http) and its process
    allowedHostSuffixes,    \* Handler.AllowedHostSuffixes
    hostnameIsAllowed,      \* Handler.HostnameIsAllowed: "nil" or "checkHostname"
    serving,        \* Serve: "init", "accepting", "returned", "crashed"
    pc,             \* per connection, where its handle goroutine stands
    proto,          \* per connection, "tls" or "http": the Handler serving it
    deadline,       \* per connection, conn's deadline: "none", "armed", "expired"
    mr,             \* per connection, the recording reader's buf
    serverName,     \* per connection, the sniffed hostname
    fail,           \* per connection, the class of the failure that ended it
    pending,        \* per connection, the rejection handle is about to write
    rejects,        \* per connection, the rejection writes handle attempted
    dialAttempts,   \* per connection, calls of DialContext
    dials,          \* per connection, backend sockets DialContext returned
    clientCloses,   \* per connection, calls of conn.Close
    backendCloses,  \* per connection, calls of rconn.Close
    wg,             \* per connection, the sync.WaitGroup counter
    cp,             \* per connection and direction, the io.Copy goroutine
    rdC, wrB,       \* per connection, bytes handle read from conn / wrote to rconn
    rdB, wrC,       \* per connection, bytes read from rconn / spliced to conn
    \* ---- the peers
    flight,         \* per connection, the client's first flight
    nC, nB,         \* per connection, payload bytes the client / backend sent
    c2p, b2p,       \* per connection, bytes sent and not yet read by the proxy
    cEOF, bEOF      \* per connection, the peer has closed its side

parserVars == <<stream, segAt, slack, hello>>

httpVars == <<request, reqSeg, reqEnd, hostOut>>

dialVars == <<subnet, remote, factory, localIP>>

readerVars == <<wire, rpos, mrBuf, rret>>

gateVars == <<gateHost, gateOut>>

configVars == <<allowedHostSuffixes, hostnameIsAllowed>>

connVars ==
    <<pc, proto, deadline, mr, serverName, fail, pending, rejects, dialAttempts, dials,
      clientCloses, backendCloses, wg, cp, rdC, wrB, rdB, wrC>>

peerVars == <<flight, nC, nB, c2p, b2p, cEOF, bEOF>>

vars == <<parserVars, httpVars, dialVars, gateVars, configVars, serving, connVars, peerVars, readerVars>>

----------------------------------------------------------------------------
(* Program constants of package tls.                                       *)

maxMessageLength == 65536
contentTypeAlert == 21
contentTypeHandshake == 22
alertLevelFatal == 2
handshakeTypeClientHello == 1
alertInternalError == 80
alertUnrecognizedName == 112
extensionServerName == 0

----------------------------------------------------------------------------
(* Byte-slice helpers.                                                     *)

Min(a, b) == IF a < b THEN a ELSE b

\* d[i] with Go's 0-based index
At(d, i) == d[i + 1]

\* d[from:to] with Go's 0-based half-open bounds
Slice(d, from, to) == SubSeq(d, from + 1, to)

\* uint16(b[i])<<8 | uint16(b[i+1])
U16(d, i) == At(d, i) * 256 + At(d, i + 1)

Zeros(n) == [i \in 1..n |-> 0]

----------------------------------------------------------------------------
(* io.Reader over a peer's byte stream.  Read(b) with len(b) = k at         *)
(* position pos: a zero-length read returns (0, nil); with nothing left    *)
(* the read fails (end of stream, or the deadline when the peer stalls);   *)
(* otherwise it returns what is available, at most k bytes and never       *)
(* across the segment boundary.                                            *)

ReadN(s, seg, pos, k) ==
    IF k = 0 THEN [n |-> 0, err |-> FALSE]
    ELSE IF pos >= Len(s) THEN [n |-> 0, err |-> TRUE]
    ELSE LET avail == IF pos < seg /\ seg < Len(s) THEN seg - pos ELSE Len(s) - pos
         IN  [n |-> Min(k, avail), err |-> FALSE]

----------------------------------------------------------------------------
(* Outcomes of readClientHello.  kind "ok": (hi, nil); kind "err": (nil,    *)
(* err), err a *tlsError carrying an alert when tlsErr, a plain error      *)
(* otherwise; kind "panic": a run-time panic (index or slice out of range).*)
(* consumed is what the recording reader holds afterwards, nrec the number *)
(* of records readRecord returned, atEnd whether the error is a failed     *)
(* Read at the end of the stream.                                          *)

NoResult == [kind |-> "none"]

POk(name) ==
    [kind |-> "ok", tlsErr |-> FALSE, alert |-> 0, class |-> "none",
     name |-> name, ver |-> <<0, 0>>, consumed |-> 0, nrec |-> 0, atEnd |-> FALSE]

PErr(class) ==
    [kind |-> "err", tlsErr |-> FALSE, alert |-> 0, class |-> class,
     name |-> <<>>, ver |-> <<0, 0>>, consumed |-> 0, nrec |-> 0, atEnd |-> FALSE]

\* tlsErrorf(alert, ...)
tlsErrorf(alert, class) ==
    [kind |-> "err", tlsErr |-> TRUE, alert |-> alert, class |-> class,
     name |-> <<>>, ver |-> <<0, 0>>, consumed |-> 0, nrec |-> 0, atEnd |-> FALSE]

PPanic(class) ==
    [kind |-> "panic", tlsErr |-> FALSE, alert |-> 0, class |-> class,
     name |-> <<>>, ver |-> <<0, 0>>, consumed |-> 0, nrec |-> 0, atEnd |-> FALSE]

----------------------------------------------------------------------------
(* readRecord: a 5-byte header in one Read, then the fragment in one Read. *)
(* A result is [ok, frag, pos, atEnd, class], pos the reader's position.   *)

RecordErr(pos, atEnd, class) ==
    [ok |-> FALSE, frag |-> <<>>, pos |-> pos, atEnd |-> atEnd, class |-> class]

\* fragment := make([]byte, ln); n, err := r.Read(fragment): f is what the
\* Read at p1 returned
recordFragment(s, p1, ln, f) ==
    IF f.err THEN RecordErr(p1 + f.n, TRUE, "read")
    ELSE IF f.n # ln THEN RecordErr(p1 + f.n, FALSE, "shortFragment")
    ELSE [ok |-> TRUE, frag |-> Slice(s, p1, p1 + ln), pos |-> p1 + ln,
          atEnd |-> FALSE, class |-> "none"]

\* head := make([]byte, 5); n, err := r.Read(head): h is what the Read at
\* pos returned
recordHeader(s, seg, pos, contentType, h) ==
    IF h.err THEN RecordErr(pos + h.n, TRUE, "read")
    ELSE IF h.n # 5 THEN RecordErr(pos + h.n, FALSE, "shortHeader")
    ELSE IF At(s, pos) # contentType THEN RecordErr(pos + 5, FALSE, "contentType")
    ELSE recordFragment(s, pos + 5, U16(s, pos + 3),
                        ReadN(s, seg, pos + 5, U16(s, pos + 3)))

readRecord(s, seg, pos, contentType) ==
    recordHeader(s, seg, pos, contentType, ReadN(s, seg, pos, 5))

\* for len(buf) < 4+msgLen { nbuf, err := readRecord(...); buf = append(buf, nbuf...) }
\* A result is [ok, buf, pos, nrec, atEnd, class].
RECURSIVE Assemble(_, _, _, _, _, _)

\* one turn of the loop: r is what readRecord returned
appendRecord(s, seg, buf, msgLen, nrec, r) ==
    IF ~r.ok
    THEN [ok |-> FALSE, buf |-> buf, pos |-> r.pos, nrec |-> nrec,
          atEnd |-> r.atEnd, class |-> r.class]
    ELSE Assemble(s, seg, r.pos, buf \o r.frag, msgLen, nrec + 1)

Assemble(s, seg, pos, buf, msgLen, nrec) ==
    IF Len(buf) >= 4 + msgLen
    THEN [ok |-> TRUE, buf |-> buf, pos |-> pos, nrec |-> nrec, atEnd |-> FALSE,
          class |-> "none"]
    ELSE appendRecord(s, seg, buf, msgLen, nrec,
                      readRecord(s, seg, pos, contentTypeHandshake))

----------------------------------------------------------------------------
(* The walk over the assembled buffer.  buf is the whole array, p the      *)
(* offset the code's slice starts at, lim the end of the code's slice and  *)
(* cap the capacity of the array.                                          *)

RECURSIVE walkServerNames(_, _, _, _, _)

\* one entry, past its 3-byte header: extbuf = buf[q:lim].
\* hi.ServerName = string(extbuf[:nameLen]) comes before the check of
\* nameLen, and a slice expression is checked against the capacity.
serverNameEntry(buf, cap, q, lim, nameLen) ==
    IF q + nameLen > cap THEN PPanic("nameSlice")
    ELSE IF lim - q < nameLen THEN PErr("nameLen")
    ELSE walkServerNames(buf, cap, q + nameLen, lim, Slice(buf, q, q + nameLen))

\* for len(extbuf) > 0 { ... }: extbuf = buf[p:lim], name the ServerName
\* set so far.  kind "cont": the list is walked, the extensions go on.
walkServerNames(buf, cap, p, lim, name) ==
    IF lim - p <= 0 THEN [POk(name) EXCEPT !.kind = "cont"]
    ELSE IF lim - p < 3 THEN PErr("nameHeader")
    ELSE IF At(buf, p) # 0 THEN tlsErrorf(alertUnrecognizedName, "nameType")
    ELSE serverNameEntry(buf, cap, p + 3, lim, U16(buf, p + 1))

RECURSIVE walkExtensions(_, _, _, _)

\* after the server names of one extension: r is what the walk returned
afterServerNames(buf, cap, lim, r) ==
    IF r.kind # "cont" THEN r ELSE walkExtensions(buf, cap, lim, r.name)

\* one extension, past its 4-byte header: buf = buf[q:], extbuf = buf[q:q+length].
\* extbuf[0] and extbuf[1] are read with no check of len(extbuf).
extensionBody(buf, cap, q, extension, length, name) ==
    IF Len(buf) - q < length THEN PErr("extLen")
    ELSE IF extension # extensionServerName
    THEN walkExtensions(buf, cap, q + length, name)
    ELSE IF length < 2 THEN PPanic("serverNameCount")
    ELSE IF length - 2 # U16(buf, q) THEN PErr("serverNameCount")
    ELSE afterServerNames(buf, cap, q + length,
                          walkServerNames(buf, cap, q + 2, q + length, name))

\* for len(buf) != 0 { ... }: buf = buf[p:]
walkExtensions(buf, cap, p, name) ==
    IF Len(buf) - p = 0 THEN POk(name)
    ELSE IF Len(buf) - p < 4 THEN PErr("extHeader")
    ELSE extensionBody(buf, cap, p + 4, U16(buf, p), U16(buf, p + 2), name)

\* (hi, nil) with hi.ProtocolVersion set
withVersion(r, major, minor) ==
    IF r.kind = "ok" THEN [r EXCEPT !.ver = <<major, minor>>] ELSE r

\* the extensions block: buf = buf[e:]
parseExtensions(buf, cap, major, minor, e) ==
    IF Len(buf) - e = 0 THEN withVersion(POk(<<>>), major, minor)
    ELSE IF Len(buf) - e < 2 THEN PErr("extensions")
    ELSE IF U16(buf, e) # Len(buf) - (e + 2) THEN PErr("extensionsLength")
    ELSE withVersion(walkExtensions(buf, cap, e + 2, <<>>), major, minor)

\* skip compression methods: buf = buf[q:], buf[0] read with no check
skipCompressionMethods(buf, cap, major, minor, q) ==
    IF Len(buf) - q = 0 THEN PPanic("compressionMethods")
    ELSE IF Len(buf) - q < 1 + At(buf, q) THEN PErr("compressionMethods")
    ELSE parseExtensions(buf, cap, major, minor, q + 1 + At(buf, q))

\* int(buf[0])<<16 | int(buf[1])
cipherSuiteLength(b0, b1) == b0 * 65536 + b1

\* skip cipher suites: buf = buf[p:]
skipCipherSuites(buf, cap, major, minor, p, cipherSuiteLen) ==
    IF cipherSuiteLen % 2 = 1 \/ Len(buf) - p < 2 + cipherSuiteLen
    THEN PErr("cipherSuites")
    ELSE skipCompressionMethods(buf, cap, major, minor, p + 2 + cipherSuiteLen)

\* skip session ID: sessionIdLen is buf[38]
skipSessionId(buf, cap, major, minor, sessionIdLen) ==
    IF sessionIdLen > 32 \/ Len(buf) < 39 + sessionIdLen THEN PErr("sessionId")
    ELSE IF Len(buf) - (39 + sessionIdLen) < 2 THEN PErr("afterSessionId")
    ELSE skipCipherSuites(buf, cap, major, minor, 39 + sessionIdLen,
            cipherSuiteLength(At(buf, 39 + sessionIdLen), At(buf, 40 + sessionIdLen)))

\* the version test: buf[4], buf[5] and buf[38] are read with no check
checkVersion(buf, cap, major, minor) ==
    IF major < 3 \/ (major = 3 /\ minor < 3) THEN PErr("version")
    ELSE IF Len(buf) < 39 THEN PPanic("sessionId")
    ELSE skipSessionId(buf, cap, major, minor, At(buf, 38))

\* the fields of the assembled handshake
parseHello(buf, cap) ==
    IF Len(buf) < 6 THEN PPanic("version")
    ELSE checkVersion(buf, cap, At(buf, 4), At(buf, 5))

\* int(buf[1])<<16 | int(buf[2])<<8 | int(buf[3])
messageLength(buf) == At(buf, 1) * 65536 + At(buf, 2) * 256 + At(buf, 3)

\* the capacity of the assembled buffer: that of the first fragment, made
\* with exactly its length, unless append had to grow it
capacity(a, slk) == IF a.nrec > 1 THEN Len(a.buf) + slk ELSE Len(a.buf)

\* the result, with what the reader and the loop have counted
counted(r, consumed, nrec, atEnd) ==
    [r EXCEPT !.consumed = consumed, !.nrec = nrec, !.atEnd = atEnd]

\* after the assembly loop: a is what it returned
assembled(a, slk) ==
    IF ~a.ok THEN counted(PErr(a.class), a.pos, a.nrec, a.atEnd)
    ELSE counted(parseHello(a.buf, capacity(a, slk)), a.pos, a.nrec, FALSE)

\* after the first readRecord: r1 is what it returned, buf its fragment.
\* buf[0] and buf[1..3] are read with no check of len(buf).
firstRecord(s, seg, slk, r1) ==
    IF ~r1.ok THEN counted(PErr(r1.class), r1.pos, 0, r1.atEnd)
    ELSE IF Len(r1.frag) < 1 THEN counted(PPanic("handshakeType"), r1.pos, 1, FALSE)
    ELSE IF At(r1.frag, 0) # handshakeTypeClientHello
    THEN counted(tlsErrorf(alertInternalError, "handshakeType"), r1.pos, 1, FALSE)
    ELSE IF Len(r1.frag) < 4 THEN counted(PPanic("msgLen"), r1.pos, 1, FALSE)
    ELSE IF messageLength(r1.frag) > maxMessageLength
    THEN counted(tlsErrorf(alertInternalError, "msgLen"), r1.pos, 1, FALSE)
    ELSE assembled(Assemble(s, seg, r1.pos, r1.frag, messageLength(r1.frag), 1), slk)

readClientHello(s, seg, slk) ==
    firstRecord(s, seg, slk, readRecord(s, seg, 0, contentTypeHandshake))

----------------------------------------------------------------------------
(* The wire format readClientHello decodes, used to build its inputs.      *)

U16Bytes(n) == <<n \div 256, n % 256>>
U24Bytes(n) == <<n \div 65536, (n \div 256) % 256, n % 256>>

RECURSIVE Flatten(_)
Flatten(ss) == IF ss = <<>> THEN <<>> ELSE Head(ss) \o Flatten(Tail(ss))

\* one TLS record: [content_type, 3, 1, length_hi, length_lo] fragment
Record(ctype, frag) == <<ctype, 3, 1>> \o U16Bytes(Len(frag)) \o frag

\* handshake header [handshake_type, len_hi, len_mid, len_lo] and body
Handshake(htype, body) == <<htype>> \o U24Bytes(Len(body)) \o body

NameEntry(nameType, name) == <<nameType>> \o U16Bytes(Len(name)) \o name
Extension(type, payload) == U16Bytes(type) \o U16Bytes(Len(payload)) \o payload
ServerNameExt(entries) == Extension(extensionServerName, U16Bytes(Len(entries)) \o entries)

\* version, 32 random bytes, session id, cipher suites, compression
\* methods, then the extensions block (absent when exts = <<>>)
HelloBody(major, minor, sid, suites, comp, exts) ==
    <<major, minor>> \o Zeros(32) \o <<Len(sid)>> \o sid
        \o U16Bytes(Len(suites)) \o suites \o <<Len(comp)>> \o comp
        \o (IF exts = <<>> THEN <<>> ELSE U16Bytes(Len(exts)) \o exts)

\* the handshake bytes hs carried by records cut at the offsets in cuts
RECURSIVE Records(_, _, _)
Records(hs, from, cuts) ==
    IF cuts = <<>> THEN Record(contentTypeHandshake, Slice(hs, from, Len(hs)))
    ELSE Record(contentTypeHandshake, Slice(hs, from, Head(cuts)))
            \o Records(hs, Head(cuts), Tail(cuts))

----------------------------------------------------------------------------
(* Bounds of the inputs.                                                   *)

MaxSessionId == 1      \* session ids of 0..MaxSessionId bytes
MaxNameLen   == 2      \* host names of 1..MaxNameLen bytes
MaxSlack     == 1      \* spare capacity behind an appended buffer

\* host name bytes: 'a', '.'
NameBytes == {97, 46}

Names == UNION { [1..n -> NameBytes] : n \in 1..MaxNameLen }

OtherExt == Extension(10, <<0, 2, 0, 23>>)

\* well-formed ClientHellos, one host_name entry, other extensions before
\* and/or after the server_name extension
ValidHello(sidLen, name, pre, post) ==
    Handshake(handshakeTypeClientHello,
        HelloBody(3, 3, Zeros(sidLen), <<0, 47>>, <<0>>,
            (IF pre THEN OtherExt ELSE <<>>)
                \o ServerNameExt(NameEntry(0, name))
                \o (IF post THEN OtherExt ELSE <<>>)))

ValidHellos ==
    { ValidHello(n, h, pre, post) :
        n \in 0..MaxSessionId, h \in Names, pre \in BOOLEAN, post \in BOOLEAN }

\* well-formed ClientHellos v = [sid, suites, comp, name, pre, post]: session
\* id, cipher suites and compression methods of the lengths given, one
\* host_name entry
HelloOf(v) ==
    Handshake(handshakeTypeClientHello,
        HelloBody(3, 3, Zeros(v.sid), Zeros(v.suites), Zeros(v.comp),
            (IF v.pre THEN OtherExt ELSE <<>>)
                \o ServerNameExt(NameEntry(0, v.name))
                \o (IF v.post THEN OtherExt ELSE <<>>)))

\* cipher suites of 2 and of 256 bytes, 1 or 2 compression methods
WellFormed ==
    [sid : 0..MaxSessionId, suites : {2, 256}, comp : {1, 2}, name : Names,
     pre : BOOLEAN, post : BOOLEAN]

\* those that the streams hold next to ValidHellos
WideHellos == { HelloOf(v) : v \in {w \in WellFormed : w.suites > 2 /\ ~w.pre /\ w.sid = 0} }

\* the hello the malformed inputs are derived from
BaseHello == ValidHello(0, <<97, 46>>, TRUE, TRUE)
TwoNames ==
    Handshake(handshakeTypeClientHello,
        HelloBody(3, 3, <<>>, <<0, 47>>, <<0>>,
            ServerNameExt(NameEntry(0, <<97>>) \o NameEntry(0, <<46, 97>>))))
NoExtensions ==
    Handshake(handshakeTypeClientHello, HelloBody(3, 4, <<>>, <<0, 47>>, <<0>>, <<>>))

\* two server_name extensions, "a" in the first and ".a" in the second
TwoExtensions ==
    Handshake(handshakeTypeClientHello,
        HelloBody(3, 3, <<>>, <<0, 47>>, <<0>>,
            ServerNameExt(NameEntry(0, <<97>>)) \o ServerNameExt(NameEntry(0, <<46, 97>>))))

\* a handshake announced with 1 byte of body: its 4-byte header in a first
\* record, then six records with a zero-length fragment and nothing more
ZeroLengthRecords ==
    Records(<<handshakeTypeClientHello, 0, 0, 1>>, 0, <<4, 4, 4, 4, 4, 4>>)

\* a ClientHello whose one host_name entry holds the byte 'a' and declares
\* a name_length of declared bytes, the lengths around it those of the
\* bytes sent, followed or not by another extension
OverlongName(declared, post) ==
    Handshake(handshakeTypeClientHello,
        HelloBody(3, 3, <<>>, <<0, 47>>, <<0>>,
            ServerNameExt(<<0>> \o U16Bytes(declared) \o <<97>>)
                \o (IF post THEN OtherExt ELSE <<>>)))

OverlongNames == [declared : {2, 300}, post : BOOLEAN]

\* a ClientHello whose cipher-suites length field holds the bytes hi, lo and
\* is followed by n bytes of cipher suites, one compression method and a
\* server_name extension naming "a"
SuiteHello(hi, lo, n) ==
    Handshake(handshakeTypeClientHello,
        <<3, 3>> \o Zeros(32) \o <<0>> \o <<hi, lo>> \o Zeros(n) \o <<1, 0>>
            \o U16Bytes(Len(ServerNameExt(NameEntry(0, <<97>>))))
            \o ServerNameExt(NameEntry(0, <<97>>)))

\* the bytes of SuiteHello that follow the length field
SuiteRemaining(n) == n + 2 + 2 + Len(ServerNameExt(NameEntry(0, <<97>>)))

\* lengths of 2, 3 (odd), 256, 258 and 512 (more than is left) bytes, as
\* many cipher-suite bytes as declared or 2
SuiteCases ==
    { [hi |-> 0, lo |-> 2, n |-> 2], [hi |-> 0, lo |-> 3, n |-> 3],
      [hi |-> 1, lo |-> 0, n |-> 256], [hi |-> 1, lo |-> 2, n |-> 258],
      [hi |-> 2, lo |-> 0, n |-> 2] }

Templates == {BaseHello, TwoNames, NoExtensions}

MutValues == {0, 1, 2, 255}

\* one byte of the handshake overwritten
Mutated(hs) == { [hs EXCEPT ![i] = v] : i \in 1..Len(hs), v \in MutValues }

\* the handshake cut short, its announced lengths left as they were
Truncated(hs) == { SubSeq(hs, 1, k) : k \in 0..Len(hs) }

\* bodies shorter than the fixed fields, announced with their true length
ShortBodies ==
    LET body == HelloBody(3, 3, <<>>, <<0, 47>>, <<0>>, <<>>)
    IN  { Handshake(handshakeTypeClientHello, SubSeq(body, 1, k)) : k \in 0..Len(body) }

Handshakes ==
    ValidHellos \cup WideHellos \cup ShortBodies
        \cup UNION { Mutated(t) \cup Truncated(t) : t \in Templates }

\* the offsets a handshake is cut at: into two records, or into three with
\* a zero-length one in the middle
Cuts == { <<j>> : j \in {0, 1, 3, 4, 5, 40} } \cup { <<j, j>> : j \in {4, 40} }

\* every handshake in one record; the templates also over two and three
\* records (zero-length and shorter-than-4 first fragments included)
Streams ==
    { Records(hs, 0, <<>>) : hs \in Handshakes }
    \cup { Records(t, 0, cuts) : t \in Templates, cuts \in Cuts }
    \cup { SubSeq(Records(BaseHello, 0, <<>>), 1, k) : k \in 0..8 }
    \cup { [Records(BaseHello, 0, <<>>) EXCEPT ![1] = v] : v \in {21, 23} }
    \cup { [Records(BaseHello, 0, <<>>) EXCEPT ![4] = 1] }
    \cup { Records(TwoExtensions, 0, <<>>), ZeroLengthRecords }
    \cup { Records(OverlongName(v.declared, v.post), 0, cuts) :
                v \in OverlongNames, cuts \in {<<>>, <<40>>} }
    \cup { Records(SuiteHello(c.hi, c.lo, c.n), 0, <<>>) : c \in SuiteCases }

----------------------------------------------------------------------------
(* Package http: hostHeader over a bufio.Scanner with ScanLines and a      *)
(* buffer capped at bufferBytes.                                           *)

bufferBytes == 1024

\* "Host: "
hostHeaderPrefix == <<72, 111, 115, 116, 58, 32>>

LF == 10
CR == 13

HasPrefix(s, prefix) ==
    Len(s) >= Len(prefix) /\ SubSeq(s, 1, Len(prefix)) = prefix

HasSuffix(s, suffix) ==
    Len(s) >= Len(suffix) /\ SubSeq(s, Len(s) - Len(suffix) + 1, Len(s)) = suffix

\* a TrimPrefix that leaves the prefix in place
KeepPrefix(s, prefix) == s

TrimPrefix(s, prefix) ==
    IF HasPrefix(s, prefix) THEN SubSeq(s, Len(prefix) + 1, Len(s)) ELSE s

\* bytes.IndexByte(d, LF), -1 when absent (0-based)
IndexLF(d) ==
    IF \E i \in 1..Len(d) : d[i] = LF
    THEN (CHOOSE i \in 1..Len(d) : d[i] = LF /\ \A j \in 1..(i - 1) : d[j] # LF) - 1
    ELSE -1

dropCR(d) ==
    IF Len(d) > 0 /\ d[Len(d)] = CR THEN SubSeq(d, 1, Len(d) - 1) ELSE d

\* bufio.ScanLines(data, atEOF): [advance, tok (is there a token), token]
ScanLines(data, atEOF) ==
    LET i == IndexLF(data)
    IN  IF atEOF /\ Len(data) = 0 THEN [advance |-> 0, tok |-> FALSE, token |-> <<>>]
        ELSE IF i >= 0 THEN [advance |-> i + 1, tok |-> TRUE, token |-> dropCR(Slice(data, 0, i))]
        ELSE IF atEOF THEN [advance |-> Len(data), tok |-> TRUE, token |-> dropCR(data)]
        ELSE [advance |-> 0, tok |-> FALSE, token |-> <<>>]

\* bufio.NewScanner(r); bs.Buffer(nil, bufferBytes).  a: offset in the
\* stream of the first unconsumed buffered byte; pos: bytes read from the
\* reader so far; start: s.start; size: len(s.buf); err: s.err
\* ("none", "eof", "read", "tooLong").
NewScanner == [a |-> 0, pos |-> 0, start |-> 0, size |-> 0, err |-> "none"]

\* bs.Err(): io.EOF is reported as nil
ScannerErr(sc) == sc.err \notin {"none", "eof"}

\* bs.Scan(): [ok, token, sc].  endKind says how a Read with nothing left
\* fails: "eof" (the peer closed) or "stall" (the deadline expires).
RECURSIVE Scan(_, _, _, _)
Scan(s, seg, endKind, sc) ==
    LET data == Slice(s, sc.a, sc.pos)
        t    == IF sc.pos > sc.a \/ sc.err # "none"
                THEN ScanLines(data, sc.err # "none")
                ELSE [advance |-> 0, tok |-> FALSE, token |-> <<>>]
        end  == sc.start + (sc.pos - sc.a)
    IN  IF t.tok
        THEN [ok |-> TRUE, token |-> t.token,
              sc |-> [sc EXCEPT !.a = @ + t.advance, !.start = @ + t.advance]]
        ELSE IF sc.err # "none" THEN [ok |-> FALSE, token |-> <<>>, sc |-> sc]
        ELSE LET shift  == sc.start > 0 /\ (end = sc.size \/ 2 * sc.start > sc.size)
                 start1 == IF shift THEN 0 ELSE sc.start
                 end1   == start1 + (sc.pos - sc.a)
             IN  IF end1 = sc.size /\ sc.size >= bufferBytes
                 THEN [ok |-> FALSE, token |-> <<>>, sc |-> [sc EXCEPT !.err = "tooLong", !.start = start1]]
                 ELSE LET size1 == IF end1 = sc.size THEN bufferBytes ELSE sc.size
                          r     == ReadN(s, seg, sc.pos, size1 - end1)
                      IN  Scan(s, seg, endKind,
                               [sc EXCEPT !.start = start1, !.size = size1,
                                          !.pos = @ + r.n,
                                          !.err = IF r.err
                                                  THEN (IF endKind = "eof" THEN "eof" ELSE "read")
                                                  ELSE "none"])

\* for bs.Scan() { ... } of hostHeader: [host, sawAllHeaders, err, consumed]
RECURSIVE headerLoop(_, _, _, _, _)
headerLoop(s, seg, endKind, sc, host) ==
    LET r == Scan(s, seg, endKind, sc)
    IN  IF ~r.ok
        THEN [host |-> host, sawAllHeaders |-> FALSE, err |-> ScannerErr(r.sc),
              class |-> IF ScannerErr(r.sc) THEN "scanner" ELSE "none",
              consumed |-> r.sc.pos, stalled |-> r.sc.err = "read"]
        ELSE IF r.token = <<>>
        THEN [host |-> host, sawAllHeaders |-> TRUE, err |-> ScannerErr(r.sc),
              class |-> "none", consumed |-> r.sc.pos, stalled |-> FALSE]
        ELSE IF ~HasPrefix(r.token, hostHeaderPrefix)
        THEN headerLoop(s, seg, endKind, r.sc, host)
        ELSE IF host # <<>>
        THEN [host |-> <<>>, sawAllHeaders |-> FALSE, err |-> TRUE,
              class |-> "multipleHost", consumed |-> r.sc.pos, stalled |-> FALSE]
        ELSE headerLoop(s, seg, endKind, r.sc, TrimPrefix(r.token, hostHeaderPrefix))

hostHeader(s, seg, endKind) ==
    LET first == Scan(s, seg, endKind, NewScanner)
    IN  IF ~first.ok
        THEN [host |-> <<>>, sawAllHeaders |-> FALSE, err |-> TRUE,
              class |-> "initialLine", consumed |-> first.sc.pos,
              stalled |-> first.sc.err = "read"]
        ELSE headerLoop(s, seg, endKind, first.sc, <<>>)

----------------------------------------------------------------------------
(* The policy gate: Handler.AllowedHostSuffixes, Handler.HostnameIsAllowed *)
(* as Serve installs it, and the test handle makes.  A []string is         *)
(* [isNil, elems]: Go tells a nil slice from an empty one.                 *)

NilList == [isNil |-> TRUE, elems |-> <<>>]
List(elems) == [isNil |-> FALSE, elems |-> elems]

\* func (h *Handler) checkHostname(hostname string) bool
checkHostname(suffixes, hostname) ==
    \E i \in 1..Len(suffixes.elems) : HasSuffix(hostname, suffixes.elems[i])

\* Serve: if h.HostnameIsAllowed == nil && h.AllowedHostSuffixes != nil
\*            { h.HostnameIsAllowed = h.checkHostname }
ServeGate(gate, suffixes) ==
    IF gate = "nil" /\ ~suffixes.isNil THEN "checkHostname" ELSE gate

\* handle: !(h.HostnameIsAllowed != nil && !h.HostnameIsAllowed(host))
Permitted(gate, suffixes, hostname) ==
    ~(gate # "nil" /\ ~checkHostname(suffixes, hostname))


----------------------------------------------------------------------------
(* Rejections.  A message written to the client is [bytes, text]: the      *)
(* bytes of a TLS alert record, or the text of an HTTP response.           *)

badRequestResponse ==
    "HTTP/1.0 400 Bad Request\r\nContent-Type: text/plain\r\n\r\nBad Request\r\n"
serviceUnavailableResponse ==
    "HTTP/1.0 503 Service Unavailable\r\nContent-Type: text/plain\r\n\r\nService Unavailable\r\n"

NoMsg == [bytes |-> <<>>, text |-> ""]

\* sendTLSAlert(w, alert): the 7 bytes it writes
sendTLSAlert(alert) ==
    [bytes |-> <<contentTypeAlert, 3, 1, 0, 2, alertLevelFatal, alert>>, text |-> ""]

\* fmt.Fprintf(conn, response)
Fprintf(response) == [bytes |-> <<>>, text |-> response]

\* alert := alertInternalError; if tlsErr, ok := err.(*tlsError); ok { alert = tlsErr.alert }
alertFor(r) == IF r.tlsErr THEN r.alert ELSE alertInternalError

\* the rejection handle writes when the policy gate says no
policyRejection(p) ==
    IF p = "tls" THEN sendTLSAlert(alertUnrecognizedName) ELSE Fprintf(badRequestResponse)

\* a dial failure answered like a replay failure
dialRejectionInternal(p) ==
    IF p = "tls" THEN sendTLSAlert(alertInternalError)
    ELSE Fprintf(serviceUnavailableResponse)

\* the rejection handle writes when DialContext fails
dialRejection(p) ==
    IF p = "tls" THEN sendTLSAlert(alertUnrecognizedName)
    ELSE Fprintf(serviceUnavailableResponse)

\* the rejection handle writes when rconn.Write(mr.buf) fails
replayRejection(p) ==
    IF p = "tls" THEN sendTLSAlert(alertInternalError)
    ELSE Fprintf(serviceUnavailableResponse)

----------------------------------------------------------------------------
(* Bounds and inputs of the connection handlers.                           *)

MaxConns   == 2     \* connections Serve accepts
MaxPayload == 1     \* bytes each peer sends after the first flight

ConnIds == 1..MaxConns

Dirs == {"c2b", "b2c"}

\* the i-th payload byte of the client, of the backend
ClientPayload(i) == 200 + i
BackendPayload(i) == 100 + i

\* ".a" and "a."
HostDotA == <<46, 97>>
HostADot == <<97, 46>>

\* allow-lists a Handler is configured with: none, empty, ["a"]
AllowLists == {NilList, List(<<>>), List(<< <<97>> >>)}

HelloWith(major, htype, exts) ==
    Handshake(htype, HelloBody(3, major, <<>>, <<0, 47>>, <<0>>, exts))

TLSFlights ==
    { Records(ValidHello(0, HostDotA, FALSE, FALSE), 0, <<>>),
      Records(ValidHello(0, HostADot, FALSE, FALSE), 0, <<>>),
      Records(NoExtensions, 0, <<>>),
      \* name_type 1
      Records(HelloWith(3, handshakeTypeClientHello, ServerNameExt(NameEntry(1, <<97>>))), 0, <<>>),
      \* content type 23
      [Records(NoExtensions, 0, <<>>) EXCEPT ![1] = 23],
      \* handshake type 2
      Records(HelloWith(3, 2, <<>>), 0, <<>>),
      \* client version 3.1
      Records(HelloWith(1, handshakeTypeClientHello, <<>>), 0, <<>>),
      \* announced length 65537
      Records(<<handshakeTypeClientHello, 1, 0, 1>>, 0, <<>>),
      \* a record cut short
      SubSeq(Records(NoExtensions, 0, <<>>), 1, 20),
      \* a record with a zero-length fragment
      Records(<<>>, 0, <<>>),
      \* a record header that declares 2 bytes, and no fragment
      <<contentTypeHandshake, 3, 1, 0, 2>> }

\* "GET /\r\n"
RequestLine == <<71, 69, 84, 32, 47, CR, LF>>
HostLine(h) == hostHeaderPrefix \o h \o <<CR, LF>>
BlankLine == <<CR, LF>>

HTTPFlights ==
    { RequestLine \o HostLine(HostDotA) \o BlankLine \o <<66>>,
      RequestLine \o HostLine(HostADot) \o BlankLine,
      RequestLine \o BlankLine,
      RequestLine \o HostLine(HostDotA) \o HostLine(HostADot) \o BlankLine,
      RequestLine \o HostLine(HostDotA),
      <<>> }

Flights(p) == IF p = "tls" THEN TLSFlights ELSE HTTPFlights

----------------------------------------------------------------------------
(* The initial values of the groups of variables.                          *)

ParserIdle ==
    /\ stream = <<>>
    /\ segAt = 0
    /\ slack = 0
    /\ hello = NoResult

GateIdle ==
    /\ gateHost = <<>>
    /\ gateOut = "none"

HostIdle ==
    /\ request = <<>>
    /\ reqSeg = 0
    /\ reqEnd = "eof"
    /\ hostOut = NoResult

ReaderIdle ==
    /\ wire = <<>>
    /\ rpos = 0
    /\ mrBuf = <<>>
    /\ rret = [n |-> 0, err |-> FALSE]

DialIdle ==
    /\ subnet = <<>>
    /\ remote = <<>>
    /\ factory = "none"
    /\ localIP = <<>>

LoopOff == [d \in Dirs |-> [pc |-> "off", chunk |-> <<>>]]

ConnsIdle ==
    /\ pc = [c \in ConnIds |-> "idle"]
    /\ proto = [c \in ConnIds |-> "tls"]
    /\ deadline = [c \in ConnIds |-> "none"]
    /\ mr = [c \in ConnIds |-> <<>>]
    /\ serverName = [c \in ConnIds |-> <<>>]
    /\ fail = [c \in ConnIds |-> "none"]
    /\ pending = [c \in ConnIds |-> NoMsg]
    /\ rejects = [c \in ConnIds |-> <<>>]
    /\ dialAttempts = [c \in ConnIds |-> 0]
    /\ dials = [c \in ConnIds |-> 0]
    /\ clientCloses = [c \in ConnIds |-> 0]
    /\ backendCloses = [c \in ConnIds |-> 0]
    /\ wg = [c \in ConnIds |-> 0]
    /\ cp = [c \in ConnIds |-> LoopOff]
    /\ rdC = [c \in ConnIds |-> <<>>]
    /\ wrB = [c \in ConnIds |-> <<>>]
    /\ rdB = [c \in ConnIds |-> <<>>]
    /\ wrC = [c \in ConnIds |-> <<>>]
    /\ flight = [c \in ConnIds |-> <<>>]
    /\ nC = [c \in ConnIds |-> 0]
    /\ nB = [c \in ConnIds |-> 0]
    /\ c2p = [c \in ConnIds |-> <<>>]
    /\ b2p = [c \in ConnIds |-> <<>>]
    /\ cEOF = [c \in ConnIds |-> FALSE]
    /\ bEOF = [c \in ConnIds |-> FALSE]


----------------------------------------------------------------------------
(* Serve and handle.  One goroutine per accepted connection; a step of the *)
(* model is what a goroutine does up to its next blocking call.            *)

\* Serve: the gate is installed, then the accept loop starts
ServeStart ==
    /\ serving = "init"
    /\ hostnameIsAllowed' = ServeGate(hostnameIsAllowed, allowedHostSuffixes)
    /\ serving' = "accepting"
    /\ UNCHANGED <<readerVars, httpVars, dialVars,
                   stream, segAt, slack, hello, gateHost, gateOut,
                   allowedHostSuffixes, pc, proto, deadline, mr, serverName,
                   fail, pending, rejects, dialAttempts, dials, clientCloses,
                   backendCloses, wg, cp, rdC, wrB, rdB, wrC, flight, nC, nB,
                   c2p, b2p, cEOF, bEOF>>

\* a Serve that calls h.handle(conn) itself: it is back at l.Accept() when
\* the handler has returned
AcceptingInTurn ==
    /\ serving = "accepting"
    /\ \A d \in ConnIds : pc[d] \in {"idle", "closed"}

\* Serve is at l.Accept(): go h.handle(conn) has started the handler of the
\* connection before and the loop has come round
Accepting == serving = "accepting"

\* conn, err := l.Accept(); go h.handle(conn).  The client connects and
\* sends its first flight.
Accept(c) ==
    /\ Accepting
    /\ pc[c] = "idle"
    /\ \A d \in ConnIds : d < c => pc[d] # "idle"
    /\ \E p \in {"tls", "http"} : \E f \in Flights(p) :
        /\ proto' = [proto EXCEPT ![c] = p]
        /\ flight' = [flight EXCEPT ![c] = f]
        /\ c2p' = [c2p EXCEPT ![c] = f]
    /\ pc' = [pc EXCEPT ![c] = "start"]
    /\ UNCHANGED <<readerVars, httpVars, dialVars,
                   stream, segAt, slack, hello, gateHost, gateOut,
                   allowedHostSuffixes, hostnameIsAllowed, serving, deadline,
                   mr, serverName, fail, pending, rejects, dialAttempts,
                   dials, clientCloses, backendCloses, wg, cp, rdC, wrB, rdB,
                   wrC, nC, nB, b2p, cEOF, bEOF>>

\* defer conn.Close(); conn.SetDeadline(time.Now().Add(5 * time.Second))
SetDeadline(c) ==
    /\ pc[c] = "start"
    /\ deadline' = [deadline EXCEPT ![c] = "armed"]
    /\ pc' = [pc EXCEPT ![c] = "sniff"]
    /\ UNCHANGED <<readerVars, httpVars, dialVars,
                   stream, segAt, slack, hello, gateHost, gateOut,
                   allowedHostSuffixes, hostnameIsAllowed, serving, proto,
                   mr, serverName, fail, pending, rejects, dialAttempts,
                   dials, clientCloses, backendCloses, wg, cp, rdC, wrB, rdB,
                   wrC, flight, nC, nB, c2p, b2p, cEOF, bEOF>>

\* how a Read of conn with nothing in flight ends: end of stream when the
\* client has closed, else the deadline
EndKind(c) == IF cEOF[c] THEN "eof" ELSE "stall"

\* a Read that waits for a client that stays silent returns only through
\* the deadline
Returns(c, waited) == waited => (cEOF[c] \/ deadline[c] # "none")

\* a Read that returned through the deadline leaves it expired
TimedOut(c, waited) == waited /\ ~cEOF[c]

Waited(c, waited) ==
    deadline' = [deadline EXCEPT ![c] = IF TimedOut(c, waited) THEN "expired" ELSE @]

\* the class of a failed sniff
SniffClass(c, waited, class) == IF TimedOut(c, waited) THEN "timeout" ELSE class

\* the recording reader has taken n bytes off the connection
Recorded(c, n) ==
    /\ mr' = [mr EXCEPT ![c] = SubSeq(c2p[c], 1, n)]
    /\ rdC' = [rdC EXCEPT ![c] = SubSeq(c2p[c], 1, n)]
    /\ c2p' = [c2p EXCEPT ![c] = SubSeq(c2p[c], n + 1, Len(c2p[c]))]

\* handle writes msg and returns
RejectWith(c, class, msg) ==
    /\ fail' = [fail EXCEPT ![c] = class]
    /\ pending' = [pending EXCEPT ![c] = msg]
    /\ pc' = [pc EXCEPT ![c] = "reject"]

\* an unrecovered panic in handle: its deferred conn.Close() runs, then the
\* run time ends the process, and with it Serve and every other goroutine
Panic(c) ==
    /\ fail' = [fail EXCEPT ![c] = "panic"]
    /\ clientCloses' = [clientCloses EXCEPT ![c] = @ + 1]
    /\ pc' = [d \in ConnIds |->
                IF d = c THEN "closed"
                ELSE IF pc[d] \in {"idle", "closed"} THEN pc[d] ELSE "killed"]
    /\ serving' = "crashed"
    /\ UNCHANGED <<pending, serverName>>

\* package tls: hi, err := readClientHello(mr) and the tests on its result
SniffTLS(c) ==
    /\ pc[c] = "sniff"
    /\ proto[c] = "tls"
    /\ LET r == readClientHello(c2p[c], 0, 0)
       IN  /\ Returns(c, r.atEnd)
           /\ Waited(c, r.atEnd)
           /\ Recorded(c, r.consumed)
           /\ IF r.kind = "panic" THEN Panic(c)
              ELSE /\ UNCHANGED <<clientCloses, serving>>
                   /\ IF r.kind = "err"
                      THEN /\ RejectWith(c, SniffClass(c, r.atEnd, r.class),
                                      sendTLSAlert(alertFor(r)))
                           /\ UNCHANGED serverName
                      ELSE IF r.name = <<>>
                      THEN /\ RejectWith(c, "noName", sendTLSAlert(alertUnrecognizedName))
                           /\ UNCHANGED serverName
                      ELSE /\ serverName' = [serverName EXCEPT ![c] = r.name]
                           /\ pc' = [pc EXCEPT ![c] = "policy"]
                           /\ UNCHANGED <<fail, pending>>
    /\ UNCHANGED <<readerVars, httpVars, dialVars,
                   stream, segAt, slack, hello, gateHost, gateOut,
                   allowedHostSuffixes, hostnameIsAllowed, proto, rejects, dialAttempts, dials, backendCloses, wg, cp, wrB,
                   rdB, wrC, flight, nC, nB, b2p, cEOF, bEOF>>

\* the tests handle makes on what hostHeader returned: the failure it
\* answers with badRequestResponse, "none" when it goes on to the policy gate
httpFailure(r) ==
    IF r.err THEN r.class
    ELSE IF ~r.sawAllHeaders THEN "unterminated"
    ELSE IF r.host = <<>> THEN "noHost"
    ELSE "none"

\* what handle writes to the client after hostHeader
httpAnswer(r) ==
    IF httpFailure(r) # "none" THEN Fprintf(badRequestResponse) ELSE NoMsg

\* package http: host, sawAllHeaders, err := hostHeader(mr) and the tests
SniffHTTP(c) ==
    /\ pc[c] = "sniff"
    /\ proto[c] = "http"
    /\ LET r == hostHeader(c2p[c], 0, EndKind(c))
       IN  /\ Returns(c, r.stalled)
           /\ Waited(c, r.stalled)
           /\ Recorded(c, r.consumed)
           /\ IF httpFailure(r) # "none"
              THEN /\ RejectWith(c, SniffClass(c, r.stalled, httpFailure(r)),
                                httpAnswer(r))
                   /\ UNCHANGED serverName
              ELSE /\ serverName' = [serverName EXCEPT ![c] = r.host]
                   /\ pc' = [pc EXCEPT ![c] = "policy"]
                   /\ UNCHANGED <<fail, pending>>
    /\ UNCHANGED <<readerVars, httpVars, dialVars,
                   stream, segAt, slack, hello, gateHost, gateOut,
                   allowedHostSuffixes, hostnameIsAllowed, serving, proto,
                   rejects, dialAttempts, dials, clientCloses,
                   backendCloses, wg, cp, wrB, rdB, wrC, flight, nC, nB, b2p,
                   cEOF, bEOF>>

\* the 5 seconds pass while handle is between the sniff and
\* conn.SetDeadline(zero)
DeadlineExpires(c) ==
    /\ pc[c] \in {"policy", "dial", "replay", "unset", "reject"}
    /\ deadline[c] = "armed"
    /\ deadline' = [deadline EXCEPT ![c] = "expired"]
    /\ UNCHANGED <<readerVars, httpVars, dialVars,
                   stream, segAt, slack, hello, gateHost, gateOut,
                   allowedHostSuffixes, hostnameIsAllowed, serving, pc, proto,
                   mr, serverName, fail, pending, rejects, dialAttempts, dials,
                   clientCloses, backendCloses, wg, cp, rdC, wrB, rdB, wrC,
                   flight, nC, nB, c2p, b2p, cEOF, bEOF>>

\* a handle that does not put the hostname to the gate
PolicySkipped(c) == TRUE

\* if h.HostnameIsAllowed != nil && !h.HostnameIsAllowed(host) { reject }
PolicyPasses(c) == Permitted(hostnameIsAllowed, allowedHostSuffixes, serverName[c])

PolicyCheck(c) ==
    /\ pc[c] = "policy"
    /\ IF PolicyPasses(c)
       THEN /\ pc' = [pc EXCEPT ![c] = "dial"]
            /\ UNCHANGED <<fail, pending>>
       ELSE RejectWith(c, "policy", policyRejection(proto[c]))
    /\ UNCHANGED <<readerVars, httpVars, dialVars,
                   stream, segAt, slack, hello, gateHost, gateOut,
                   allowedHostSuffixes, hostnameIsAllowed, serving, proto,
                   deadline, mr, serverName, rejects, dialAttempts, dials,
                   clientCloses, backendCloses, wg, cp, rdC, wrB, rdB, wrC,
                   flight, nC, nB, c2p, b2p, cEOF, bEOF>>

\* rconn, err := dialer.DialContext(ctx, ...); defer rconn.Close()
Dial(c) ==
    /\ pc[c] = "dial"
    /\ dialAttempts' = [dialAttempts EXCEPT ![c] = @ + 1]
    /\ \E ok \in BOOLEAN :
        IF ok
        THEN /\ dials' = [dials EXCEPT ![c] = @ + 1]
             /\ pc' = [pc EXCEPT ![c] = "replay"]
             /\ UNCHANGED <<fail, pending>>
        ELSE /\ RejectWith(c, "dial", dialRejection(proto[c]))
             /\ UNCHANGED dials
    /\ UNCHANGED <<readerVars, httpVars, dialVars,
                   stream, segAt, slack, hello, gateHost, gateOut,
                   allowedHostSuffixes, hostnameIsAllowed, serving, proto,
                   deadline, mr, serverName, rejects, clientCloses,
                   backendCloses, wg, cp, rdC, wrB, rdB, wrC, flight, nC, nB,
                   c2p, b2p, cEOF, bEOF>>

\* a replay that loses the first byte of the recording
ReplayedShort(buf, n) == SubSeq(buf, 2, n)

\* what rconn.Write(mr.buf) puts on the backend socket: all of it, or on an
\* error the first n bytes
Replayed(buf, n) == SubSeq(buf, 1, n)

\* if _, err := rconn.Write(mr.buf); err != nil { reject }
Replay(c) ==
    /\ pc[c] = "replay"
    /\ \E n \in {0, 1, Len(mr[c])} :
        /\ wrB' = [wrB EXCEPT ![c] = Replayed(mr[c], n)]
        /\ IF n = Len(mr[c])
           THEN /\ pc' = [pc EXCEPT ![c] = "unset"]
                /\ UNCHANGED <<fail, pending>>
           ELSE RejectWith(c, "replay", replayRejection(proto[c]))
    /\ UNCHANGED <<readerVars, httpVars, dialVars,
                   stream, segAt, slack, hello, gateHost, gateOut,
                   allowedHostSuffixes, hostnameIsAllowed, serving, proto,
                   deadline, mr, serverName, rejects, dialAttempts, dials,
                   clientCloses, backendCloses, wg, cp, rdC, rdB, wrC,
                   flight, nC, nB, c2p, b2p, cEOF, bEOF>>

\* a handle that leaves the deadline as it is
DeadlineKept(d) == d

\* var zero time.Time; conn.SetDeadline(zero): no deadline, whether the
\* one set before had passed or not
DeadlineUnset(d) == "none"

\* conn.SetDeadline(zero); wg.Add(2); go io.Copy(conn, rconn);
\* go io.Copy(rconn, conn); then wg.Wait()
StartSplice(c) ==
    /\ pc[c] = "unset"
    /\ deadline' = [deadline EXCEPT ![c] = DeadlineUnset(@)]
    /\ wg' = [wg EXCEPT ![c] = 2]
    /\ cp' = [cp EXCEPT ![c] = [d \in Dirs |-> [pc |-> "read", chunk |-> <<>>]]]
    /\ pc' = [pc EXCEPT ![c] = "wait"]
    /\ UNCHANGED <<readerVars, httpVars, dialVars,
                   stream, segAt, slack, hello, gateHost, gateOut,
                   allowedHostSuffixes, hostnameIsAllowed, serving, proto,
                   mr, serverName, fail, pending, rejects, dialAttempts,
                   dials, clientCloses, backendCloses, rdC, wrB, rdB, wrC,
                   flight, nC, nB, c2p, b2p, cEOF, bEOF>>

\* the socket a copy loop reads from, writes to, has been closed by handle
SrcClosed(c, d) == IF d = "c2b" THEN clientCloses[c] > 0 ELSE backendCloses[c] > 0
DstClosed(c, d) == IF d = "c2b" THEN backendCloses[c] > 0 ELSE clientCloses[c] > 0

\* io.Copy returns; wg.Done()
LoopEnds(c, d) ==
    /\ cp' = [cp EXCEPT ![c][d] = [pc |-> "done", chunk |-> <<>>]]
    /\ wg' = [wg EXCEPT ![c] = @ - 1]

\* io.Copy(dst, src), the read half: what is in flight is read; at the end
\* of the stream, or on a socket handle has closed, the loop ends; else the
\* read blocks
CopyRead(c, d) ==
    /\ pc[c] \in {"wait", "closing", "closed"}
    /\ cp[c][d].pc = "read"
    /\ LET inflight == IF d = "c2b" THEN c2p[c] ELSE b2p[c]
           eof      == IF d = "c2b" THEN cEOF[c] ELSE bEOF[c]
       IN  IF SrcClosed(c, d)
           THEN /\ LoopEnds(c, d)
                /\ UNCHANGED <<c2p, b2p, rdC, rdB>>
           ELSE IF inflight # <<>>
           THEN /\ cp' = [cp EXCEPT ![c][d] = [pc |-> "write", chunk |-> inflight]]
                /\ IF d = "c2b"
                   THEN /\ c2p' = [c2p EXCEPT ![c] = <<>>]
                        /\ rdC' = [rdC EXCEPT ![c] = @ \o inflight]
                        /\ UNCHANGED <<b2p, rdB>>
                   ELSE /\ b2p' = [b2p EXCEPT ![c] = <<>>]
                        /\ rdB' = [rdB EXCEPT ![c] = @ \o inflight]
                        /\ UNCHANGED <<c2p, rdC>>
                /\ UNCHANGED wg
           ELSE /\ eof
                /\ LoopEnds(c, d)
                /\ UNCHANGED <<c2p, b2p, rdC, rdB>>
    /\ UNCHANGED <<readerVars, httpVars, dialVars,
                   stream, segAt, slack, hello, gateHost, gateOut,
                   allowedHostSuffixes, hostnameIsAllowed, serving, pc,
                   proto, deadline, mr, serverName, fail, pending, rejects,
                   dialAttempts, dials, clientCloses, backendCloses, wrB,
                   wrC, flight, nC, nB, cEOF, bEOF>>

\* io.Copy(dst, src), the write half: the chunk is written and the loop
\* reads again, or the write fails (the peer is gone, or handle has closed
\* the socket) and the loop ends
CopyWrite(c, d) ==
    /\ pc[c] \in {"wait", "closing", "closed"}
    /\ cp[c][d].pc = "write"
    /\ LET gone == IF d = "c2b" THEN bEOF[c] ELSE cEOF[c]
       IN  \E ok \in BOOLEAN :
            /\ ok => ~DstClosed(c, d)
            /\ ~ok => (gone \/ DstClosed(c, d))
            /\ IF ok
               THEN /\ cp' = [cp EXCEPT ![c][d] = [pc |-> "read", chunk |-> <<>>]]
                    /\ IF d = "c2b"
                       THEN /\ wrB' = [wrB EXCEPT ![c] = @ \o cp[c][d].chunk]
                            /\ UNCHANGED wrC
                       ELSE /\ wrC' = [wrC EXCEPT ![c] = @ \o cp[c][d].chunk]
                            /\ UNCHANGED wrB
                    /\ UNCHANGED wg
               ELSE /\ LoopEnds(c, d)
                    /\ UNCHANGED <<wrB, wrC>>
    /\ UNCHANGED <<readerVars, httpVars, dialVars,
                   stream, segAt, slack, hello, gateHost, gateOut,
                   allowedHostSuffixes, hostnameIsAllowed, serving, pc,
                   proto, deadline, mr, serverName, fail, pending, rejects,
                   dialAttempts, dials, clientCloses, backendCloses, rdC,
                   rdB, flight, nC, nB, c2p, b2p, cEOF, bEOF>>

\* a wait that ends with the first copy loop
FirstLoopOver(c) == wg[c] < 2

\* wg.Wait() returns
SpliceOver(c) == wg[c] = 0

WaitDone(c) ==
    /\ pc[c] = "wait"
    /\ SpliceOver(c)
    /\ pc' = [pc EXCEPT ![c] = "closing"]
    /\ UNCHANGED <<readerVars, httpVars, dialVars,
                   stream, segAt, slack, hello, gateHost, gateOut,
                   allowedHostSuffixes, hostnameIsAllowed, serving, proto,
                   deadline, mr, serverName, fail, pending, rejects,
                   dialAttempts, dials, clientCloses, backendCloses, wg, cp,
                   rdC, wrB, rdB, wrC, flight, nC, nB, c2p, b2p, cEOF, bEOF>>

\* a handle without the return behind a rejection: it goes on to
\* conn.SetDeadline(zero) and the copy loops
afterRejectionGoOn == "unset"

\* the return behind every rejection: what is left are the deferred Closes
afterRejection == "closing"

\* sendTLSAlert(conn, alert) / fmt.Fprintf(conn, response); return.  The
\* write is attempted once and its error is dropped.  The deadline of
\* SetDeadline is that of writes too: once it has passed, Write fails
\* without sending.  Before that a write of these few bytes fails only when
\* the client is gone.
Reject(c) ==
    /\ pc[c] = "reject"
    /\ \E ok \in BOOLEAN :
        /\ ok => deadline[c] # "expired"
        /\ ~ok => (cEOF[c] \/ deadline[c] = "expired")
        /\ rejects' = [rejects EXCEPT ![c] = Append(@, [msg |-> pending[c], ok |-> ok])]
    /\ pc' = [pc EXCEPT ![c] = afterRejection]
    /\ UNCHANGED <<readerVars, httpVars, dialVars,
                   stream, segAt, slack, hello, gateHost, gateOut,
                   allowedHostSuffixes, hostnameIsAllowed, serving, proto,
                   deadline, mr, serverName, fail, pending, dialAttempts,
                   dials, clientCloses, backendCloses, wg, cp, rdC, wrB, rdB,
                   wrC, flight, nC, nB, c2p, b2p, cEOF, bEOF>>

\* a handle without defer rconn.Close()
CloseClientOnly(c) ==
    /\ pc[c] = "closing"
    /\ UNCHANGED backendCloses
    /\ clientCloses' = [clientCloses EXCEPT ![c] = @ + 1]
    /\ pc' = [pc EXCEPT ![c] = "closed"]
    /\ UNCHANGED <<readerVars, httpVars, dialVars,
                   stream, segAt, slack, hello, gateHost, gateOut,
                   allowedHostSuffixes, hostnameIsAllowed, serving, proto,
                   deadline, mr, serverName, fail, pending, rejects,
                   dialAttempts, dials, wg, cp, rdC, wrB, rdB, wrC, flight,
                   nC, nB, c2p, b2p, cEOF, bEOF>>

\* the deferred calls, last in first out: rconn.Close() when the dial
\* succeeded, cancel(), conn.Close()
Close(c) ==
    /\ pc[c] = "closing"
    /\ backendCloses' = [backendCloses EXCEPT ![c] = IF dials[c] > 0 THEN @ + 1 ELSE @]
    /\ clientCloses' = [clientCloses EXCEPT ![c] = @ + 1]
    /\ pc' = [pc EXCEPT ![c] = "closed"]
    /\ UNCHANGED <<readerVars, httpVars, dialVars,
                   stream, segAt, slack, hello, gateHost, gateOut,
                   allowedHostSuffixes, hostnameIsAllowed, serving, proto,
                   deadline, mr, serverName, fail, pending, rejects,
                   dialAttempts, dials, wg, cp, rdC, wrB, rdB, wrC, flight,
                   nC, nB, c2p, b2p, cEOF, bEOF>>

----------------------------------------------------------------------------
(* The peers.                                                              *)

Live(c) == pc[c] \notin {"idle", "closed", "killed"}

ClientSend(c) ==
    /\ Live(c)
    /\ ~cEOF[c]
    /\ nC[c] < MaxPayload
    /\ nC' = [nC EXCEPT ![c] = @ + 1]
    /\ c2p' = [c2p EXCEPT ![c] = Append(@, ClientPayload(nC[c] + 1))]
    /\ UNCHANGED <<readerVars, httpVars, dialVars,
                   stream, segAt, slack, hello, gateHost, gateOut,
                   allowedHostSuffixes, hostnameIsAllowed, serving, pc,
                   proto, deadline, mr, serverName, fail, pending, rejects,
                   dialAttempts, dials, clientCloses, backendCloses, wg, cp,
                   rdC, wrB, rdB, wrC, flight, nB, b2p, cEOF, bEOF>>

ClientClose(c) ==
    /\ Live(c)
    /\ ~cEOF[c]
    /\ cEOF' = [cEOF EXCEPT ![c] = TRUE]
    /\ UNCHANGED <<readerVars, httpVars, dialVars,
                   stream, segAt, slack, hello, gateHost, gateOut,
                   allowedHostSuffixes, hostnameIsAllowed, serving, pc,
                   proto, deadline, mr, serverName, fail, pending, rejects,
                   dialAttempts, dials, clientCloses, backendCloses, wg, cp,
                   rdC, wrB, rdB, wrC, flight, nC, nB, c2p, b2p, bEOF>>

BackendSend(c) ==
    /\ Live(c)
    /\ dials[c] > 0
    /\ ~bEOF[c]
    /\ nB[c] < MaxPayload
    /\ nB' = [nB EXCEPT ![c] = @ + 1]
    /\ b2p' = [b2p EXCEPT ![c] = Append(@, BackendPayload(nB[c] + 1))]
    /\ UNCHANGED <<readerVars, httpVars, dialVars,
                   stream, segAt, slack, hello, gateHost, gateOut,
                   allowedHostSuffixes, hostnameIsAllowed, serving, pc,
                   proto, deadline, mr, serverName, fail, pending, rejects,
                   dialAttempts, dials, clientCloses, backendCloses, wg, cp,
                   rdC, wrB, rdB, wrC, flight, nC, c2p, cEOF, bEOF>>

BackendClose(c) ==
    /\ Live(c)
    /\ dials[c] > 0
    /\ ~bEOF[c]
    /\ bEOF' = [bEOF EXCEPT ![c] = TRUE]
    /\ UNCHANGED <<readerVars, httpVars, dialVars,
                   stream, segAt, slack, hello, gateHost, gateOut,
                   allowedHostSuffixes, hostnameIsAllowed, serving, pc,
                   proto, deadline, mr, serverName, fail, pending, rejects,
                   dialAttempts, dials, clientCloses, backendCloses, wg, cp,
                   rdC, wrB, rdB, wrC, flight, nC, nB, c2p, b2p, cEOF>>

----------------------------------------------------------------------------
(* Spec: one connection followed from Serve through handle to its end,     *)
(* with its two peers.  Handlers share the Handler's fields, which they    *)
(* only read, and the process.                                             *)

Init ==
    /\ ReaderIdle
    /\ HostIdle
    /\ DialIdle
    /\ ParserIdle
    /\ GateIdle
    /\ allowedHostSuffixes \in AllowLists
    /\ hostnameIsAllowed = "nil"
    /\ serving = "init"
    /\ ConnsIdle

\* handle once it has the hostname, and its copy loops
AfterSniff(c) ==
    \/ PolicyCheck(c)
    \/ Dial(c)
    \/ Replay(c)
    \/ StartSplice(c)
    \/ \E d \in Dirs : CopyRead(c, d)
    \/ \E d \in Dirs : CopyWrite(c, d)
    \/ WaitDone(c)
    \/ Reject(c)
    \/ Close(c)

HandlerStep(c) ==
    \/ SetDeadline(c)
    \/ SniffTLS(c)
    \/ SniffHTTP(c)
    \/ AfterSniff(c)

PeerStep(c) ==
    \/ ClientSend(c)
    \/ ClientClose(c)
    \/ BackendSend(c)
    \/ BackendClose(c)

\* the first connection Serve accepts
Followed == {c \in ConnIds : \A d \in ConnIds : c <= d}

Next ==
    \/ ServeStart
    \/ \E c \in Followed : Accept(c)
    \/ \E c \in Followed : HandlerStep(c)
    \/ \E c \in Followed : PeerStep(c)
    \/ \E c \in Followed : DeadlineExpires(c)

Spec == Init /\ [][Next]_vars

\* SpecLive: the same, where handle and its copy loops take a step they can
\* take, from the policy check on.  Nothing obliges a peer to send or to
\* close.
SpecLive == Spec /\ \A c \in Followed : WF_vars(AfterSniff(c))

----------------------------------------------------------------------------
(* SpecServe: Serve with up to MaxConns connections handled at once, for   *)
(* a Handler without an allow-list and clients that send their first       *)
(* flight only.                                                            *)

InitServe ==
    /\ ReaderIdle
    /\ HostIdle
    /\ DialIdle
    /\ ParserIdle
    /\ GateIdle
    /\ allowedHostSuffixes = NilList
    /\ hostnameIsAllowed = "nil"
    /\ serving = "init"
    /\ ConnsIdle

NextServe ==
    \/ ServeStart
    \/ \E c \in ConnIds : Accept(c)
    \/ \E c \in ConnIds : HandlerStep(c)
    \/ \E c \in ConnIds : ClientClose(c) \/ BackendSend(c) \/ BackendClose(c)
    \/ \E c \in ConnIds : DeadlineExpires(c)

SpecServe == InitServe /\ [][NextServe]_vars

----------------------------------------------------------------------------
(* SpecGate: the gate of a Handler started with Serve, put to one hostname *)
(* for one configured allow-list.                                          *)

MaxSuffixes  == 2      \* entries of an allow-list
MaxSuffixLen == 1      \* bytes of an entry
MaxHostLen   == 2      \* bytes of a hostname

Strings(n) == UNION { [1..k -> NameBytes] : k \in 0..n }

GateLists ==
    {NilList} \cup
    { List(l) : l \in UNION { [1..k -> Strings(MaxSuffixLen)] : k \in 0..MaxSuffixes } }

InitGate ==
    /\ ReaderIdle
    /\ HostIdle
    /\ DialIdle
    /\ ParserIdle
    /\ gateHost \in Strings(MaxHostLen)
    /\ gateOut = "none"
    /\ allowedHostSuffixes \in GateLists
    /\ hostnameIsAllowed = "nil"
    /\ serving = "init"
    /\ ConnsIdle

\* handle puts the hostname to h.HostnameIsAllowed
GateCheck ==
    /\ serving = "accepting"
    /\ gateOut = "none"
    /\ gateOut' = IF Permitted(hostnameIsAllowed, allowedHostSuffixes, gateHost)
                  THEN "permit" ELSE "reject"
    /\ UNCHANGED <<gateHost, parserVars, httpVars, dialVars, configVars, serving, connVars, peerVars, readerVars>>

NextGate ==
    \/ ServeStart
    \/ GateCheck

SpecGate == InitGate /\ [][NextGate]_vars

----------------------------------------------------------------------------
(* Package fourtosix: DialUnderSubnet and the factory it returns.  The     *)
(* -v4-subnet argument is [addr, len]: the bytes of the address before the *)
(* slash (4 for an IPv4 address, 16 for an IPv6 one, anything else does    *)
(* not parse) and the number after it.  A net.IP is a sequence of bytes.   *)

subnetMaskFourInSix == 96

\* the 12 bytes in front of an IPv4 address held in 16 bytes (::ffff:a.b.c.d)
v4InV6Prefix == <<0, 0, 0, 0, 0, 0, 0, 0, 0, 0, 255, 255>>

\* net.ParseCIDR(s): (ip, mask, err).  The IP it returns has 16 bytes for
\* either family; ones is mask.Size()'s first result.
ParseCIDR(s) ==
    IF Len(s.addr) \notin {4, 16} \/ s.len > 8 * Len(s.addr)
    THEN [err |-> TRUE, ip |-> <<>>, ones |-> 0]
    ELSE [err |-> FALSE,
          ip |-> IF Len(s.addr) = 4 THEN v4InV6Prefix \o s.addr ELSE s.addr,
          ones |-> s.len]

\* net.IP.To4(): the 4-byte form, nil when ip is not an IPv4 address
To4(ip) ==
    IF Len(ip) = 4 THEN ip
    ELSE IF Len(ip) = 16 /\ SubSeq(ip, 1, 12) = v4InV6Prefix THEN SubSeq(ip, 13, 16)
    ELSE <<>>

\* make(net.IP, n)
make(n) == [i \in 1..n |-> 0]

\* copy(dst, src): min(len(dst), len(src)) bytes are copied; dst afterwards
copy(dst, src) ==
    [i \in 1..Len(dst) |-> IF i <= Len(src) THEN src[i] ELSE dst[i]]

\* a DialUnderSubnet that turns down a 96-bit mask as well
DialUnderSubnetBelow(s) ==
    LET p == ParseCIDR(s)
    IN  IF p.err THEN "error"
        ELSE IF p.ones >= subnetMaskFourInSix THEN "error"
        ELSE IF p.ones = 0 THEN "error"
        ELSE "made"

\* DialUnderSubnet(subnet): "error" for (nil, err), "made" for (factory, nil)
DialUnderSubnet(s) ==
    LET p == ParseCIDR(s)
    IN  IF p.err THEN "error"
        ELSE IF p.ones > subnetMaskFourInSix THEN "error"
        ELSE IF p.ones = 0 THEN "error"
        ELSE "made"

\* the factory on a connection from remoteIP: the LocalAddr.IP of the
\* Dialer it returns.  localIP[13:] are the bytes 13, 14 and 15, counted
\* from 0.
Factory(localNet, remoteIP) ==
    LET ip == copy(make(Len(localNet)), localNet)
    IN  SubSeq(ip, 1, 13) \o copy(SubSeq(ip, 14, Len(ip)), To4(remoteIP))

----------------------------------------------------------------------------
(* SpecDial: main calls DialUnderSubnet with the -v4-subnet flag, and a    *)
(* handler calls the factory for a connection it accepted.                 *)

\* 64:ff9b::, 2001:db8:1:2:3:4:5:6 and 10.0.0.0
Prefix64ff9b == <<0, 100, 255, 155, 0, 0, 0, 0, 0, 0, 0, 0, 0, 0, 0, 0>>
Prefix2001   == <<32, 1, 13, 184, 0, 1, 0, 2, 0, 3, 0, 4, 0, 5, 0, 6>>
Prefix10     == <<10, 0, 0, 0>>

\* the arguments: every length the family has and one more, and a string
\* that is no CIDR
Subnets ==
    { [addr |-> a, len |-> n] :
        a \in {Prefix64ff9b, Prefix2001, Prefix10}, n \in 0..129 }
    \cup { [addr |-> <<>>, len |-> 0] }

\* 192.0.2.10, 10.1.2.3, and 127.0.0.1 held in 16 bytes
Clients ==
    { <<192, 0, 2, 10>>, <<10, 1, 2, 3>>, v4InV6Prefix \o <<127, 0, 0, 1>> }

InitDial ==
    /\ subnet \in Subnets
    /\ remote \in Clients
    /\ factory = "none"
    /\ localIP = <<>>
    /\ ReaderIdle
    /\ HostIdle
    /\ ParserIdle
    /\ GateIdle
    /\ allowedHostSuffixes = NilList
    /\ hostnameIsAllowed = "nil"
    /\ serving = "init"
    /\ ConnsIdle

\* main: makeDialer, err = fourtosix.DialUnderSubnet(*fourToSixSubnet)
CallDialUnderSubnet ==
    /\ factory = "none"
    /\ factory' = DialUnderSubnet(subnet)
    /\ UNCHANGED <<subnet, remote, localIP>>
    /\ UNCHANGED <<parserVars, httpVars, gateVars, configVars, serving, connVars, peerVars, readerVars>>

\* handle: dialer = h.MakeDialer(conn, *hi)
CallFactory ==
    /\ factory = "made"
    /\ localIP' = Factory(ParseCIDR(subnet).ip, remote)
    /\ factory' = "called"
    /\ UNCHANGED <<subnet, remote>>
    /\ UNCHANGED <<parserVars, httpVars, gateVars, configVars, serving, connVars, peerVars, readerVars>>

NextDial ==
    \/ CallDialUnderSubnet
    \/ CallFactory

SpecDial == InitDial /\ [][NextDial]_vars

\* C15: the address the factory binds to has 16 bytes, the first 12 those of
\* the subnet's address and the last 4 the client's IPv4 address a, b, c, d;
\* for 64:ff9b::/96 and 192.0.2.10 that is 64:ff9b::c000:020a.
C15_ClientEmbedded ==
    factory = "called" =>
        /\ Len(localIP) = 16
        /\ SubSeq(localIP, 1, 12) = SubSeq(ParseCIDR(subnet).ip, 1, 12)
        /\ SubSeq(localIP, 13, 16) = To4(remote)

\* C16: DialUnderSubnet returns an error and no factory when the argument
\* does not parse, when the mask length is 0 and when it is more than 96,
\* and a factory for every mask length from 1 to 96.
C16_MaskLengthChecked ==
    factory # "none" =>
        (factory = "error" <=>
            \/ ParseCIDR(subnet).err
            \/ subnet.len = 0
            \/ subnet.len > 96)

C16_Witness ==
    /\ factory = "made"
    /\ subnet.len = 96

----------------------------------------------------------------------------
(* SpecHost: hostHeader on its own, on the requests a peer can send.  A    *)
(* request is [line, headers, blank, rest, eol]: the request line and the  *)
(* header lines without their line endings, whether the blank line that    *)
(* ends the header block is sent, what follows (a body after the blank     *)
(* line, else a last line cut before its line ending), and the line ending *)
(* the peer uses.                                                          *)

MaxHeaders == 2     \* header lines of a request

\* "GET /", "X: y", "host: a", "Host: a"
GetSlash   == <<71, 69, 84, 32, 47>>
OtherLine  == <<88, 58, 32, 121>>
LowerHost  == <<104, 111, 115, 116, 58, 32, 97>>
HostA      == hostHeaderPrefix \o <<97>>

\* n bytes 'x'
Pad(n) == [i \in 1..n |-> 120]

RECURSIVE Lines(_, _)
Lines(hs, eol) ==
    IF hs = <<>> THEN <<>> ELSE Head(hs) \o eol \o Lines(Tail(hs), eol)

\* the bytes of a request on the wire
RequestBytes(req) ==
    Lines(<<req.line>> \o req.headers, req.eol)
        \o (IF req.blank THEN req.eol ELSE <<>>) \o req.rest

HeaderLines ==
    { hostHeaderPrefix \o HostDotA, HostA, hostHeaderPrefix, OtherLine, LowerHost }

ShortRequests ==
    { [line |-> GetSlash, headers |-> hs, blank |-> b, rest |-> t, eol |-> e] :
        hs \in UNION { [1..n -> HeaderLines] : n \in 0..MaxHeaders },
        b \in BOOLEAN,
        t \in {<<>>, HostA},
        e \in { <<CR, LF>>, <<LF>> } }

\* lines that fill the scanner's buffer, and lines one byte longer
LongRequests ==
    { [line |-> l, headers |-> hs, blank |-> TRUE, rest |-> <<>>, eol |-> <<CR, LF>>] :
        l \in {GetSlash, Pad(bufferBytes - 2), Pad(bufferBytes - 1)},
        hs \in { << hostHeaderPrefix \o HostDotA >>,
                 << Pad(bufferBytes - 2), hostHeaderPrefix \o HostDotA >>,
                 << Pad(bufferBytes - 1), hostHeaderPrefix \o HostDotA >>,
                 << Pad(bufferBytes), hostHeaderPrefix \o HostDotA >>,
                 << hostHeaderPrefix \o Pad(bufferBytes - 8) >> } }

Requests == ShortRequests \cup LongRequests

InitHost ==
    /\ request \in Requests
    /\ reqSeg \in {0, 9}
    /\ reqEnd \in {"eof", "stall"}
    /\ hostOut = NoResult
    /\ ReaderIdle
    /\ DialIdle
    /\ ParserIdle
    /\ GateIdle
    /\ allowedHostSuffixes = NilList
    /\ hostnameIsAllowed = "nil"
    /\ serving = "init"
    /\ ConnsIdle

\* handle: host, sawAllHeaders, err := hostHeader(mr)
HostStep ==
    /\ hostOut = NoResult
    /\ hostOut' = hostHeader(RequestBytes(request), reqSeg, reqEnd)
    /\ UNCHANGED <<request, reqSeg, reqEnd>>
    /\ UNCHANGED <<parserVars, dialVars, gateVars, configVars, serving, connVars, peerVars, readerVars>>

NextHost == HostStep

SpecHost == InitHost /\ [][NextHost]_vars

\* the header lines of a request that start with the Host prefix
HostLines(req) ==
    { i \in 1..Len(req.headers) : HasPrefix(req.headers[i], hostHeaderPrefix) }

\* the value of the request's Host header when it has exactly one
HostValue(req) ==
    LET i == CHOOSE j \in HostLines(req) : TRUE
    IN  SubSeq(req.headers[i], Len(hostHeaderPrefix) + 1, Len(req.headers[i]))

\* (host, true, nil)
ReturnedHost(r, host) == r.host = host /\ r.sawAllHeaders /\ ~r.err

\* what the claim says of a call's result
HostContract(req, r) ==
    /\ (req.blank /\ Cardinality(HostLines(req)) = 1) => ReturnedHost(r, HostValue(req))
    /\ (req.blank /\ HostLines(req) = {}) =>
            /\ ReturnedHost(r, <<>>)
            /\ httpAnswer(r) = Fprintf(badRequestResponse)
    /\ ~req.blank =>
            /\ ~r.sawAllHeaders
            /\ httpAnswer(r) = Fprintf(badRequestResponse)

C18_SecondHostRefused ==
    (hostOut # NoResult /\ Cardinality(HostLines(request)) > 1) =>
        /\ hostOut.err
        /\ httpFailure(hostOut) # "none"

----------------------------------------------------------------------------
(* SpecParser: readClientHello on its own.                                 *)

InitParser ==
    /\ ReaderIdle
    /\ HostIdle
    /\ DialIdle
    /\ stream \in Streams
    /\ segAt \in {0, 3, 30}
    /\ slack \in {0, MaxSlack}
    /\ hello = NoResult
    /\ GateIdle
    /\ allowedHostSuffixes = NilList
    /\ hostnameIsAllowed = "nil"
    /\ serving = "init"
    /\ ConnsIdle

ParseStep ==
    /\ hello = NoResult
    /\ hello' = readClientHello(stream, segAt, slack)
    /\ UNCHANGED <<stream, segAt, slack>>
    /\ UNCHANGED <<httpVars, dialVars, gateVars, configVars, serving, connVars, peerVars, readerVars>>

NextParser == ParseStep

SpecParser == InitParser /\ [][NextParser]_vars

TypeParser ==
    hello # NoResult => hello.kind \in {"ok", "err", "panic"}

\* C1: every byte stream delivered to readClientHello ends in a ClientHello
\* or an error; no index or slice expression of the parse goes out of range.
C1_ParseNeverPanics ==
    hello # NoResult => hello.kind \in {"ok", "err"}

----------------------------------------------------------------------------
(* The handlers' contract.                                                 *)

IsPrefix(a, b) == Len(a) <= Len(b) /\ SubSeq(b, 1, Len(a)) = a

\* the payload a peer has sent after n bytes
ClientSent(n) == [i \in 1..n |-> ClientPayload(i)]
BackendSent(n) == [i \in 1..n |-> BackendPayload(i)]

\* the rejection of an empty or unpermitted hostname
NameRejection(p) ==
    IF p = "tls" THEN [bytes |-> <<21, 3, 1, 0, 2, 2, 112>>, text |-> ""]
    ELSE [bytes |-> <<>>, text |-> badRequestResponse]

\* C2: a backend dial is attempted only after sniffing returned a non-empty
\* hostname that the policy gate permitted; a handler that ended on an empty
\* or unpermitted hostname has written the unrecognized_name alert (TLS) or
\* the 400 response (HTTP), has closed the client socket and has never
\* dialed.
C2_DialOnlyIfPermitted ==
    \A c \in ConnIds :
        /\ dialAttempts[c] > 0 =>
            /\ serverName[c] # <<>>
            /\ Permitted(hostnameIsAllowed, allowedHostSuffixes, serverName[c])
        /\ fail[c] \in {"noName", "noHost", "policy"} =>
            /\ dialAttempts[c] = 0
            /\ dials[c] = 0
            /\ pc[c] = "closed" =>
                /\ Len(rejects[c]) = 1
                /\ rejects[c][1].msg = NameRejection(proto[c])
                /\ clientCloses[c] = 1

\* a hostname was rejected by the gate and the handler has ended
C2_Witness ==
    \E c \in ConnIds :
        /\ pc[c] = "closed"
        /\ fail[c] = "policy"
        /\ serverName[c] # <<>>
        /\ dials[c] = 0

\* C3: the gate of a Handler started with Serve permits a hostname if and
\* only if the allow-list is empty (nil or of length zero) or some entry of
\* it is a suffix of the hostname.
C3_GateIffEmptyOrSuffix ==
    gateOut # "none" =>
        (gateOut = "permit" <=>
            \/ Len(allowedHostSuffixes.elems) = 0
            \/ \E i \in 1..Len(allowedHostSuffixes.elems) :
                HasSuffix(gateHost, allowedHostSuffixes.elems[i]))

\* C4: the bytes written to the backend are a prefix of the bytes read from
\* the client, which are the bytes the client sent, in order; the recording
\* of the sniff is written whole before the client->backend loop forwards
\* anything; the bytes written to the client are a prefix of the bytes read
\* from the backend, which are the bytes the backend sent.
C4_BytesInOrder ==
    \A c \in ConnIds :
        /\ IsPrefix(wrB[c], rdC[c])
        /\ IsPrefix(wrC[c], rdB[c])
        /\ pc[c] # "idle" => rdC[c] \o c2p[c] = flight[c] \o ClientSent(nC[c])
        /\ rdB[c] \o b2p[c] = BackendSent(nB[c])
        /\ IsPrefix(mr[c], rdC[c])
        /\ cp[c]["c2b"].pc # "off" => IsPrefix(mr[c], wrB[c])
        /\ cp[c]["c2b"].pc = "write" => wrB[c] \o cp[c]["c2b"].chunk = rdC[c]
        /\ cp[c]["b2c"].pc = "write" => wrC[c] \o cp[c]["b2c"].chunk = rdB[c]

\* the backend has the first flight and a payload byte after it, the client
\* a byte of the backend
C4_Witness ==
    \E c \in ConnIds :
        /\ mr[c] # <<>>
        /\ wrB[c] = flight[c] \o ClientSent(MaxPayload)
        /\ Len(wrB[c]) > Len(mr[c])
        /\ wrC[c] # <<>>

\* C5: from the start of the splice on, handle closes no socket while a
\* copy loop is running: when one loop has ended, handle is still in
\* wg.Wait() and both sockets are open to the other loop.
C5_BothLoopsBeforeClose ==
    \A c \in ConnIds : \A d \in Dirs :
        cp[c][d].pc \in {"read", "write"} =>
            /\ pc[c] = "wait"
            /\ clientCloses[c] = 0
            /\ backendCloses[c] = 0

\* the client->backend loop has ended and the backend->client loop forwards
\* a byte it read after that
C5_Witness ==
    \E c \in ConnIds :
        /\ cp[c]["c2b"].pc = "done"
        /\ cp[c]["b2c"].pc = "write"
        /\ cEOF[c]
        /\ pc[c] = "wait"

\* C6: once a peer has closed during the splice, the handler ends with both
\* sockets closed.
C6_ClosesAfterPeerClose ==
    \A c \in Followed :
        (pc[c] = "wait" /\ (cEOF[c] \/ bEOF[c]))
            ~> (pc[c] = "closed" /\ clientCloses[c] = 1 /\ backendCloses[c] = 1)

\* C7: the client socket is closed at most once and a handler that has
\* ended has closed it; at most one backend socket is dialed, never closed
\* twice, and closed when the handler has ended; a handler that has ended
\* has no copy loop left that reads or writes.
C7_ClosedExactlyOnce ==
    \A c \in ConnIds :
        /\ clientCloses[c] <= 1
        /\ dialAttempts[c] <= 1
        /\ dials[c] <= dialAttempts[c]
        /\ backendCloses[c] <= dials[c]
        /\ pc[c] = "closed" =>
            /\ clientCloses[c] = 1
            /\ backendCloses[c] = dials[c]
            /\ \A d \in Dirs : cp[c][d].pc \in {"off", "done"}

\* a handler has ended after a splice, both sockets closed
C7_Witness ==
    \E c \in ConnIds :
        /\ pc[c] = "closed"
        /\ dials[c] = 1
        /\ backendCloses[c] = 1
        /\ cp[c]["c2b"].pc = "done"
        /\ cp[c]["b2c"].pc = "done"

\* C8: a handler that ended on a failure of the sniff, the policy check,
\* the dial or the replay has attempted exactly one rejection write.
C8_OneRejectionBeforeClose ==
    \A c \in ConnIds :
        (pc[c] = "closed" /\ fail[c] # "none") => Len(rejects[c]) = 1

\* the rejection a failure class calls for
AlertRecord(code) == [bytes |-> <<21, 3, 1, 0, 2, 2, code>>, text |-> ""]

ExpectedRejection(p, class) ==
    IF p = "tls"
    THEN IF class \in {"nameType", "noName", "policy", "dial"}
         THEN AlertRecord(112) ELSE AlertRecord(80)
    ELSE IF class \in {"dial", "replay"}
         THEN [bytes |-> <<>>, text |-> serviceUnavailableResponse]
         ELSE [bytes |-> <<>>, text |-> badRequestResponse]

\* C9: every rejection written, and the one about to be written, is the one
\* its failure class calls for: alert 112 for a name type, an empty name, a
\* policy rejection and a dial failure and alert 80 for every other TLS
\* failure; 503 for an HTTP dial or replay failure and 400 for every other
\* HTTP failure.
C9_RejectionByClass ==
    \A c \in ConnIds :
        /\ pc[c] = "reject" => pending[c] = ExpectedRejection(proto[c], fail[c])
        /\ \A i \in 1..Len(rejects[c]) :
            rejects[c][i].msg = ExpectedRejection(proto[c], fail[c])

\* a dial failure of a TLS connection has been answered
C9_Witness ==
    \E c \in ConnIds :
        /\ proto[c] = "tls"
        /\ fail[c] = "dial"
        /\ Len(rejects[c]) = 1

\* C10: a step in which a connection fails leaves the accept loop and the
\* handlers of the other connections as they were.
C10_FailureIsolated ==
    [][\A c \in ConnIds :
        (fail[c] = "none" /\ fail'[c] # "none") =>
            /\ serving' = serving
            /\ \A d \in ConnIds \ {c} : pc'[d] = pc[d]]_vars

\* C11: a handler whose sniff ran into the deadline has ended with the
\* client having received the internal_error alert (TLS) or the 400 response
\* (HTTP): the one rejection write succeeded.
C11_TimeoutAnswered ==
    \A c \in ConnIds :
        (pc[c] = "closed" /\ fail[c] = "timeout") =>
            /\ Len(rejects[c]) = 1
            /\ rejects[c][1].msg = ExpectedRejection(proto[c], "timeout")
            /\ rejects[c][1].ok

\* C12: readClientHello, given all the bytes it asks for, returns the name
\* of the one host_name entry of every well-formed ClientHello sent in one
\* record.
C12_SingleEntryName ==
    (hello # NoResult /\ segAt = 0) =>
        \A v \in WellFormed :
            stream = Records(HelloOf(v), 0, <<>>) =>
                (hello.kind = "ok" /\ hello.name = v.name)

\* what readClientHello returns: error or not, the version, the name
Returned(r) == <<r.kind, r.ver, r.name>>

\* C13: readClientHello, given all the bytes it asks for, returns for a
\* valid ClientHello cut into several records what it returns for the same
\* ClientHello in one record.
C13_SplitSameResult ==
    (hello # NoResult /\ segAt = 0) =>
        \A t \in Templates : \A cuts \in Cuts :
            stream = Records(t, 0, cuts) =>
                Returned(hello) = Returned(readClientHello(Records(t, 0, <<>>), 0, 0))

\* a record declared longer than what the client sent of it, or a handshake
\* announced longer than maxMessageLength
LengthFailure(c) ==
    \/ fail[c] \in {"shortFragment", "msgLen"}
    \/ fail[c] \in {"read", "timeout"} /\ Len(mr[c]) = 5

\* C14: a TLS handler that ended on such a record or announcement has sent
\* the client the internal_error alert.
C14_LengthFailureAnswered ==
    \A c \in ConnIds :
        (proto[c] = "tls" /\ pc[c] = "closed" /\ LengthFailure(c) /\ ~cEOF[c]) =>
            rejects[c] = << [msg |-> AlertRecord(80), ok |-> TRUE] >>

\* C19: the assembly loop ends once 4 + announced_length bytes are
\* collected, and the number of records it reads is bounded by the bytes the
\* message takes, at most 4 + 65536: every record read after the first
\* brings the loop nearer to its end, so that no more than 4 +
\* announced_length records are read, zero-length fragments included.
C19_RecordsBounded ==
    (hello # NoResult /\ hello.nrec > 1) =>
        hello.nrec <= 4 + messageLength(Slice(stream, 5, 9))

\* C20: of a ClientHello with several valid host_name entries, in one
\* server_name list or in several server_name extensions, readClientHello
\* returns the first in wire order.
C20_FirstNameReturned ==
    (hello # NoResult /\ segAt = 0) =>
        \A t \in {TwoNames, TwoExtensions} :
            stream = Records(t, 0, <<>>) =>
                (hello.kind = "ok" /\ hello.name = <<97>>)

\* C21: a server_name entry whose name_length exceeds the bytes left in
\* the extension payload makes readClientHello return an error: the length
\* is compared before the name is sliced, so nothing outside the payload
\* is read and nothing panics.
C21_NameLengthChecked ==
    (hello # NoResult /\ segAt = 0) =>
        \A v \in OverlongNames : \A cuts \in {<<>>, <<40>>} :
            stream = Records(OverlongName(v.declared, v.post), 0, cuts) =>
                (hello.kind = "err" /\ hello.class = "nameLen")

\* C22: the cipher-suites length is hi * 256 + lo; the parse fails when
\* that is odd or more than the bytes left after the length field, and
\* otherwise goes on behind that many bytes, here to the name "a".
C22_SuiteLengthDecoded ==
    (hello # NoResult /\ segAt = 0) =>
        \A c \in SuiteCases :
            stream = Records(SuiteHello(c.hi, c.lo, c.n), 0, <<>>) =>
                IF (c.hi * 256 + c.lo) % 2 = 1 \/ c.hi * 256 + c.lo > SuiteRemaining(c.n)
                THEN hello.kind = "err"
                ELSE hello.kind = "ok" /\ hello.name = <<97>>

----------------------------------------------------------------------------
(* SpecReader: a MemorizingReader over a reader that returns the bytes of  *)
(* wire in order, as many per Read as it likes, with or without an error.  *)

MaxWire == 3    \* bytes the underlying reader has
MaxRead == 2    \* len(b) of a Read

Wires == UNION { [1..n -> {1, 2}] : n \in 0..MaxWire }

\* b after mr.Reader.Read(b) returned n: the n bytes read, then what b held
Filled(k, n) == SubSeq(wire, rpos + 1, rpos + n) \o Zeros(k - n)

\* a Read that records all of b
appendWhole(buf, b, n) == buf \o b

\* mr.buf = append(mr.buf, b[:n]...)
appendRead(buf, b, n) == buf \o SubSeq(b, 1, n)

InitReader ==
    /\ wire \in Wires
    /\ rpos = 0
    /\ mrBuf = <<>>
    /\ rret = [n |-> 0, err |-> FALSE]
    /\ HostIdle
    /\ DialIdle
    /\ ParserIdle
    /\ GateIdle
    /\ allowedHostSuffixes = NilList
    /\ hostnameIsAllowed = "nil"
    /\ serving = "init"
    /\ ConnsIdle

\* func (mr *MemorizingReader) Read(b []byte) (n int, err error), len(b) = k:
\* the underlying Read returns n <= k of the bytes left (none, some or all
\* it could), with an error or without
MemorizingRead(k, n, err) ==
    /\ n <= Min(k, Len(wire) - rpos)
    /\ rpos' = rpos + n
    /\ mrBuf' = appendRead(mrBuf, Filled(k, n), n)
    /\ rret' = [n |-> n, err |-> err]
    /\ UNCHANGED wire
    /\ UNCHANGED <<parserVars, httpVars, dialVars, gateVars, configVars, serving, connVars, peerVars>>

NextReader ==
    \E k \in 0..MaxRead : \E n \in 0..k : \E err \in BOOLEAN : MemorizingRead(k, n, err)

SpecReader == InitReader /\ [][NextReader]_vars

\* C23: after any sequence of Reads the buffer of a recording reader is
\* the bytes the underlying reader returned, in order, no more and no less,
\* and a Read only extends it: the buffer before is a prefix of the buffer
\* after.
C23_BufferIsWhatWasRead ==
    /\ [](mrBuf = SubSeq(wire, 1, rpos))
    /\ [][IsPrefix(mrBuf, mrBuf')]_vars

\* a Read that returned data together with an error, after earlier Reads
C23_Witness ==
    /\ rret.err
    /\ rret.n > 0
    /\ Len(mrBuf) > rret.n
    /\ mrBuf = wire

\* C24: the deadline set at the start of handle is in force while it
\* sniffs, checks the policy, dials and replays; it is cleared after the
\* replay and before a copy loop starts, so that no read or write of the
\* copy loops has a deadline and no connection that timed out is spliced.
C24_NoDeadlineWhileSplicing ==
    \A c \in ConnIds :
        /\ pc[c] \in {"sniff", "policy", "dial", "replay"} => deadline[c] # "none"
        /\ (pc[c] = "wait" \/ cp[c] # LoopOff) => deadline[c] = "none"
        /\ fail[c] = "timeout" => cp[c] = LoopOff

\* bytes of the backend copied to the client of a handler whose replay is
\* done
C24_Witness ==
    \E c \in ConnIds :
        /\ pc[c] = "wait"
        /\ wrC[c] # <<>>
        /\ deadline[c] = "none"

----------------------------------------------------------------------------
(* SpecAccept: SpecServe with a listener whose Accept can fail, and        *)
(* handlers that the deadline does not overtake between two steps.         *)

\* conn, err := l.Accept() with err != nil
AcceptFails ==
    /\ serving = "accepting"
    /\ serving' = "acceptFailed"
    /\ UNCHANGED <<parserVars, httpVars, dialVars, gateVars, configVars, connVars, peerVars, readerVars>>

\* if err != nil { return fmt.Errorf("failed to accept: %v", err) }
ServeReturns ==
    /\ serving = "acceptFailed"
    /\ serving' = "returned"
    /\ UNCHANGED <<parserVars, httpVars, dialVars, gateVars, configVars, connVars, peerVars, readerVars>>

NextAccept ==
    \/ ServeStart
    \/ \E c \in ConnIds : Accept(c)
    \/ AcceptFails
    \/ ServeReturns
    \/ \E c \in ConnIds : HandlerStep(c)
    \/ \E c \in ConnIds : ClientClose(c) \/ BackendSend(c) \/ BackendClose(c)

SpecAccept == InitServe /\ [][NextAccept]_vars

\* the connection Serve's next Accept returns
NextConn(c) == pc[c] = "idle" /\ \A d \in ConnIds : d < c => pc[d] # "idle"

\* a handler inside a call that waits for a peer
Blocked(d) == pc[d] \in {"sniff", "dial", "replay", "wait"}

\* the steps of handle that wait for nothing can be taken
CanGoOn(c) ==
    /\ pc[c] = "start" => ENABLED SetDeadline(c)
    /\ pc[c] = "policy" => ENABLED PolicyCheck(c)
    /\ pc[c] = "dial" => ENABLED Dial(c)
    /\ pc[c] = "reject" => ENABLED Reject(c)
    /\ pc[c] = "closing" => ENABLED Close(c)

\* C25: Serve starts one handler per accepted connection and is back at
\* Accept whatever the handlers do: while handlers are blocked in sniffing,
\* dialing, replay or splicing the next connection is accepted and every
\* other handler takes its steps; a step of one handler changes no other
\* handler's place; Serve returns only after Accept has failed.
C25_AcceptLoopIndependent ==
    /\ [](\A c \in ConnIds :
            (\E d \in ConnIds \ {c} : Blocked(d)) =>
                /\ (serving = "accepting" /\ NextConn(c)) => ENABLED Accept(c)
                /\ CanGoOn(c))
    /\ [][\A c \in ConnIds :
            (pc[c] = "idle" /\ pc'[c] # "idle") =>
                /\ serving = "accepting"
                /\ pc'[c] = "start"
                /\ \A d \in ConnIds \ {c} : pc'[d] = pc[d]]_vars
    /\ [][(serving # "returned" /\ serving' = "returned") => serving = "acceptFailed"]_vars

\* the second connection accepted and handled to its end while the first
\* handler waits for its two copy loops, and Serve returned since
C25_Witness ==
    /\ pc[1] = "wait"
    /\ wg[1] = 2
    /\ pc[2] = "closed"
    /\ serving = "returned"

\* C26: a client is sent a rejection or spliced bytes of the backend, never
\* both: where a rejection has been written no copy loop was started and
\* none is started later, where a copy loop was started no rejection is
\* written, and up to the start of the copy loops the client has been sent
\* nothing or, at the end of a failed handler, its one rejection.
C26_RejectionOrSplice ==
    \A c \in ConnIds :
        /\ rejects[c] # <<>> => (cp[c] = LoopOff /\ wrC[c] = <<>>)
        /\ cp[c] # LoopOff => rejects[c] = <<>>
        /\ wrC[c] # <<>> => cp[c] # LoopOff
        /\ pc[c] \in {"idle", "start", "sniff", "policy", "dial", "replay", "unset", "reject"} =>
                (rejects[c] = <<>> /\ wrC[c] = <<>>)
        /\ Len(rejects[c]) <= 1

\* a handler that rejected after it had dialed, and ended
C26_Witness ==
    \E c \in ConnIds :
        /\ pc[c] = "closed"
        /\ fail[c] = "replay"
        /\ Len(rejects[c]) = 1
        /\ dials[c] = 1

====
